---- MODULE Spec2Model ----
(***************************************************************************)
(* The example programs of the structs repository:                         *)
(*   songs   orders/main.go: CSV file -> [][]string -> []song -> stdout    *)
(*   astros  astros/main.go: JSON object -> astros{People []astro}         *)
(*   load    README "Decoding": JSON array -> []country                    *)
(*   save    README "Encoding": []struct -> countries.json, in the two     *)
(*           revisions of the README (os.OpenFile and os.Create)           *)
(*   codec   README "Encoding"/"Decoding"/"Field Tags": Marshal of a slice *)
(*           of structs followed by Unmarshal into fresh structs           *)
(* A Go string is a sequence of one-character strings, so that names can   *)
(* be case-folded and inspected; "" is << >>.                              *)
(***************************************************************************)
EXTENDS Integers, Sequences, FiniteSets, TLC

VARIABLES
    prog,        \* which program runs
    variant,     \* save: "OpenFile" or "Create"; other programs: "-"
    schema,      \* codec/save: the struct type being encoded
    disk,        \* the file the program works on
    pc,          \* position in main
    f,           \* the *os.File: "nil", "open", "closed"
    exit,        \* "running", "ok" (return from main), "fatal" (os.Exit(1)
                 \* from log.Fatal), "panic" (run-time panic)
    orders,      \* songs: result of ReadAll
    songs,       \* songs: result of songEntries
    i,           \* songs: index of the range loop over songs
    decoded,     \* astros/load/codec: the value decoded into
    entities,    \* codec/save: the slice being encoded
    w,           \* save/codec: the encoder's output (bufio buffer)
    out          \* stdout, one element per Printf

vars == <<prog, variant, schema, disk, pc, f, exit, orders, songs, i,
          decoded, entities, w, out>>

----------------------------------------------------------------------------
(* Bounds of the model *)

MaxRows == 3      \* rows of a CSV file
MaxFields == 4    \* fields of a CSV row
MaxElems == 2     \* elements of a JSON array
MaxKeys == 2      \* key/value pairs in a JSON document, all objects together
MaxEntities == 2  \* structs in an encoded slice
MaxOld == 6       \* tokens of the previous content of countries.json

----------------------------------------------------------------------------
(* Strings *)

UpperCase == <<"A","B","C","D","E","F","G","H","I","J","K","L","M",
               "N","O","P","Q","R","S","T","U","V","W","X","Y","Z">>
LowerCase == <<"a","b","c","d","e","f","g","h","i","j","k","l","m",
               "n","o","p","q","r","s","t","u","v","w","x","y","z">>

isUpper(c) == \E k \in DOMAIN UpperCase : UpperCase[k] = c

toLower(c) ==
    IF isUpper(c) THEN LowerCase[CHOOSE k \in DOMAIN UpperCase : UpperCase[k] = c]
    ELSE c

foldName(s) == [k \in DOMAIN s |-> toLower(s[k])]

\* strings.EqualFold, as encoding/json uses it to match a key to a field
equalFold(a, b) == foldName(a) = foldName(b)

\* a field is exported when its name begins with an upper-case letter
isExported(name) == name # <<>> /\ isUpper(name[1])

Digits == <<"1","2","3","4","5","6","7","8","9">>

----------------------------------------------------------------------------
(* orders/main.go: the songs loader *)

\* the text of field j of the row with letter id
Text(id, j) == <<id, Digits[j]>>

RowIds == {"a", "b"}

\* a line of the file: a record of n fields, or a line encoding/csv rejects
\* (a bare quote in an unquoted field)
BadLine == <<"bad", <<>>>>
RecordLine(id, n) == <<"record", [j \in 1..n |-> Text(id, j)]>>
Lines == {BadLine} \cup {RecordLine(id, n) : id \in RowIds, n \in 1..MaxFields}

RECURSIVE SeqsUpTo(_, _)
SeqsUpTo(S, n) ==
    IF n = 0 THEN {<<>>}
    ELSE LET shorter == SeqsUpTo(S, n - 1)
         IN shorter \cup {Append(s, x) : s \in {t \in shorter : Len(t) = n - 1}, x \in S}

CsvFiles == SeqsUpTo(Lines, MaxRows)

\* csv.Reader.ReadAll with the default FieldsPerRecord = 0: the first record
\* fixes the number of fields; a parse error or a record of another length
\* returns (nil, err).
RECURSIVE readAll(_, _, _)
readAll(lines, k, records) ==
    IF k > Len(lines) THEN [records |-> records, err |-> FALSE]
    ELSE IF lines[k][1] = "bad" THEN [records |-> <<>>, err |-> TRUE]
    ELSE IF records # <<>> /\ Len(lines[k][2]) # Len(records[1])
         THEN [records |-> <<>>, err |-> TRUE]
    ELSE readAll(lines, k + 1, Append(records, lines[k][2]))

\* ReadAll as it would be if an error ended the loop with the records read
\* so far and no error
RECURSIVE readAllPartial(_, _, _)
readAllPartial(lines, k, records) ==
    IF k > Len(lines) THEN [records |-> records, err |-> FALSE]
    ELSE IF lines[k][1] = "bad" THEN [records |-> records, err |-> FALSE]
    ELSE IF records # <<>> /\ Len(lines[k][2]) # Len(records[1])
         THEN [records |-> records, err |-> FALSE]
    ELSE readAllPartial(lines, k + 1, Append(records, lines[k][2]))

ReadAllPartial(lines) == readAllPartial(lines, 1, <<>>)

ReadAll(lines) == readAll(lines, 1, <<>>)

\* song{title, artist, genre}
song(title, artist, genre) == <<title, artist, genre>>

\* songEntries' loop as it would be if each song were put in front of the
\* slice instead of appended
RECURSIVE songEntriesLoopPrepend(_, _, _)
songEntriesLoopPrepend(data, k, acc) ==
    IF k > Len(data) THEN [songs |-> acc, panicked |-> FALSE]
    ELSE IF Len(data[k]) < 3 THEN [songs |-> <<>>, panicked |-> TRUE]
    ELSE songEntriesLoopPrepend(data, k + 1,
                                <<song(data[k][1], data[k][2], data[k][3])>> \o acc)

\* the range loop of songEntries; row[0], row[1], row[2] panic with "index
\* out of range" on a row of fewer than three fields
RECURSIVE songEntriesLoop(_, _, _)
songEntriesLoop(data, k, acc) ==
    IF k > Len(data) THEN [songs |-> acc, panicked |-> FALSE]
    ELSE IF Len(data[k]) < 3 THEN [songs |-> <<>>, panicked |-> TRUE]
    ELSE songEntriesLoop(data, k + 1,
                         Append(acc, song(data[k][1], data[k][2], data[k][3])))

songEntries(data) == songEntriesLoop(data, 1, <<>>)

----------------------------------------------------------------------------
(* Names and string literals of the programs *)

s_People == <<"P","e","o","p","l","e">>
s_people == <<"p","e","o","p","l","e">>
s_crew == <<"c","r","e","w">>
s_Craft == <<"C","r","a","f","t">>
s_Name == <<"N","a","m","e">>
s_name == <<"n","a","m","e">>
s_Capital == <<"C","a","p","i","t","a","l">>
s_population == <<"p","o","p","u","l","a","t","i","o","n">>
s_Space == <<"S","p","a","c","e">>
s_Field1 == <<"F","i","e","l","d","1">>
s_Field2 == <<"F","i","e","l","d","2">>
s_Field3 == <<"F","i","e","l","d","3">>
s_Field4 == <<"F","i","e","l","d","4">>
s_foo == <<"f","o","o">>
s_bar == <<"b","a","r">>
s_omitempty == <<"o","m","i","t","e","m","p","t","y">>
s_pop == <<"p","o","p">>
s_Latvia == <<"L","a","t","v","i","a">>
s_Riga == <<"R","i","g","a">>
s_Switzerland == <<"S","w","i","t","z","e","r","l","a","n","d">>
s_Bern == <<"B","e","r","n">>
s_ISS == <<"I","S","S">>
s_dash == <<"-">>
s_x == <<"x">>
s_y == <<"y">>

----------------------------------------------------------------------------
(* Struct types.  A field is its name, its type, its json tag split at the  *)
(* commas (<< >> when the field has no tag) and, for a slice of structs,    *)
(* the element type.                                                        *)

NoTag == <<>>

Field(name, type, tag) == [name |-> name, type |-> type, tag |-> tag, elem |-> <<>>]
SliceField(name, elemType) == [name |-> name, type |-> "slice", tag |-> NoTag, elem |-> elemType]

\* astros/main.go
astro == <<Field(s_Craft, "string", NoTag), Field(s_Name, "string", NoTag)>>
astros == <<SliceField(s_People, astro)>>

\* README "Decoding"; the tag of the unexported field is a parameter
country(popTag) ==
    <<Field(s_Name, "string", NoTag), Field(s_Capital, "string", NoTag),
      Field(s_population, "int", popTag), Field(s_Space, "int", NoTag)>>

\* README "Encoding": the anonymous struct of the countries slice
countriesElem(popTag) ==
    <<Field(s_Name, "string", NoTag), Field(s_Capital, "string", NoTag),
      Field(s_population, "int", popTag)>>

\* README "Field Tags"
Record ==
    <<Field(s_Field1, "string", <<s_dash>>),
      Field(s_Field2, "string", <<s_foo, s_omitempty>>),
      Field(s_Field3, "string", <<s_bar>>),
      Field(s_Field4, "string", NoTag)>>

zeroValue(type) == IF type = "int" THEN 0 ELSE <<>>

zeroStruct(sch) == [k \in DOMAIN sch |-> zeroValue(sch[k].type)]

----------------------------------------------------------------------------
(* encoding/json as the programs use it.  A JSON value is <<kind, payload>> *)
(* with kind "string", "number", "array" or "object"; an object is the      *)
(* sequence of its <<key, value>> pairs in the order of the text.           *)

tagName(fld) == IF fld.tag = NoTag THEN <<>> ELSE fld.tag[1]

\* omitempty as it would be if the whole tag were compared with "omitempty"
tagOmitEmptyWholeTag(fld) == fld.tag = <<s_omitempty>>

tagOmitEmpty(fld) == \E k \in 2..Len(fld.tag) : fld.tag[k] = s_omitempty

\* usable as it would be if unexported fields were not filtered out
usableUnexported(fld) == fld.tag # <<s_dash>>

\* a field takes part in encoding and decoding when it is exported and its
\* tag is not "-"
usable(fld) == isExported(fld.name) /\ fld.tag # <<s_dash>>

\* the key of a field: the name its tag gives, else its own name
keyOf(fld) == IF tagName(fld) # <<>> THEN tagName(fld) ELSE fld.name

isEmptyValue(v, fld) == v = zeroValue(fld.type)

\* encodeValue as it would be if every value were written as a JSON string
encodeValueQuoted(v, fld) == <<"string", v>>

encodeValue(v, fld) == IF fld.type = "int" THEN <<"number", v>> ELSE <<"string", v>>

RECURSIVE marshalStruct(_, _, _)
marshalStruct(ent, sch, k) ==
    IF k > Len(sch) THEN <<>>
    ELSE LET fld == sch[k]
             rest == marshalStruct(ent, sch, k + 1)
         IN IF ~usable(fld) \/ (tagOmitEmpty(fld) /\ isEmptyValue(ent[k], fld))
            THEN rest
            ELSE << <<keyOf(fld), encodeValue(ent[k], fld)>> >> \o rest

\* json.Marshal / Encoder.Encode of a slice of structs
Marshal(ents, sch) ==
    <<"array", [k \in DOMAIN ents |-> <<"object", marshalStruct(ents[k], sch, 1)>>]>>

\* findField as it would be if keys were matched letter for letter only
findFieldExact(sch, key) ==
    LET exact == {k \in DOMAIN sch : usable(sch[k]) /\ keyOf(sch[k]) = key}
    IN IF exact # {} THEN CHOOSE k \in exact : \A m \in exact : k <= m
       ELSE 0

\* the field a key decodes into, 0 when there is none: an exact match of
\* the key is preferred, else the first field whose key equals it under
\* case folding
findField(sch, key) ==
    LET exact == {k \in DOMAIN sch : usable(sch[k]) /\ keyOf(sch[k]) = key}
        folded == {k \in DOMAIN sch : usable(sch[k]) /\ equalFold(keyOf(sch[k]), key)}
        least(S) == CHOOSE k \in S : \A m \in S : k <= m
    IN IF exact # {} THEN least(exact)
       ELSE IF folded # {} THEN least(folded)
       ELSE 0

RECURSIVE decodeValue(_, _, _), decodeObject(_, _, _, _), decodeArray(_, _, _, _)

\* a value into a field (or element) of the given type, holding old; on a
\* type mismatch the value is skipped, the target keeps what it holds, the
\* error is remembered and decoding goes on
decodeStruct(v, sch, old) ==
    IF v[1] = "object" THEN decodeObject(v[2], 1, sch, [val |-> old, err |-> FALSE])
    ELSE [val |-> old, err |-> TRUE]

decodeSlice(v, elemType, old) ==
    IF v[1] = "array" THEN decodeArray(v[2], 1, elemType, [val |-> <<>>, err |-> FALSE])
    ELSE [val |-> old, err |-> TRUE]

decodeValue(v, fld, old) ==
    IF fld.type = "slice" THEN decodeSlice(v, fld.elem, old)
    ELSE IF fld.type = "int"
         THEN [val |-> IF v[1] = "number" THEN v[2] ELSE old, err |-> v[1] # "number"]
    ELSE [val |-> IF v[1] = "string" THEN v[2] ELSE old, err |-> v[1] # "string"]

decodeObject(pairs, k, sch, acc) ==
    IF k > Len(pairs) THEN acc
    ELSE LET key == pairs[k][1]
             n == findField(sch, key)
         IN IF n = 0 THEN decodeObject(pairs, k + 1, sch, acc)
            ELSE LET r == decodeValue(pairs[k][2], sch[n], acc.val[n])
                 IN decodeObject(pairs, k + 1, sch,
                        [val |-> [acc.val EXCEPT ![n] = r.val],
                         err |-> acc.err \/ r.err])

decodeArray(elems, k, elemType, acc) ==
    IF k > Len(elems) THEN acc
    ELSE LET r == decodeStruct(elems[k], elemType, zeroStruct(elemType))
         IN decodeArray(elems, k + 1, elemType,
                [val |-> Append(acc.val, r.val), err |-> acc.err \/ r.err])

\* Decoder.Decode: io.EOF on an empty stream, a syntax error on malformed
\* text (the target is untouched), else the value is unmarshalled
DecodeStruct(doc, sch) ==
    IF doc[1] \in {"eof", "syntax"} THEN [val |-> zeroStruct(sch), err |-> TRUE]
    ELSE decodeStruct(doc, sch, zeroStruct(sch))

\* DecodeSlice as it would be if io.EOF were taken for an empty input
DecodeSliceEofEmpty(doc, elemType) ==
    IF doc[1] = "eof" THEN [val |-> <<>>, err |-> FALSE]
    ELSE IF doc[1] = "syntax" THEN [val |-> <<>>, err |-> TRUE]
    ELSE decodeSlice(doc, elemType, <<>>)

DecodeSlice(doc, elemType) ==
    IF doc[1] \in {"eof", "syntax"} THEN [val |-> <<>>, err |-> TRUE]
    ELSE decodeSlice(doc, elemType, <<>>)

----------------------------------------------------------------------------
(* Files and values the programs are run on *)

Absent == <<"absent", <<>>>>     \* no such file: os.Open fails
Denied == <<"denied", <<>>>>     \* not writable: os.OpenFile / os.Create fails

Cost(e) == IF e[1] = "object" THEN Len(e[2]) ELSE 0

\* arrays of at most n elements, each an object over the given pairs or one
\* of others, with at most budget pairs in all
RECURSIVE ArraysWithin(_, _, _, _)
ArraysWithin(pairs, others, n, budget) ==
    {<<>>} \cup
    IF n = 0 THEN {}
    ELSE UNION { { <<e>> \o rest :
                     rest \in ArraysWithin(pairs, others, n - 1, budget - Cost(e)) } :
                 e \in {<<"object", o>> : o \in SeqsUpTo(pairs, budget)} \cup others }

EmptyStream == <<"eof", <<>>>>       \* a file of zero bytes
Malformed == <<"syntax", <<>>>>      \* text that is not JSON

AstroPairs ==
    { <<s_Craft, <<"string", s_ISS>>>>,
      <<s_Name, <<"string", s_x>>>>,
      <<s_name, <<"string", s_y>>>> }

AstrosDocs ==
    {EmptyStream, Malformed, <<"array", <<>>>>, <<"object", <<>>>>} \cup
    { <<"object", << <<k, <<"array", a>>>> >>>> :
        k \in {s_People, s_people, s_crew},
        a \in ArraysWithin(AstroPairs, {<<"number", 7>>}, MaxElems, MaxKeys) }

CountryPairs ==
    { <<s_Name, <<"string", s_x>>>>,
      <<s_name, <<"string", s_y>>>>,
      <<s_Space, <<"number", 5>>>>,
      <<s_Space, <<"string", s_x>>>>,
      <<s_population, <<"number", 9>>>> }

LoadDocs ==
    {EmptyStream, Malformed, <<"object", <<>>>>} \cup
    { <<"array", a>> : a \in ArraysWithin(CountryPairs, {}, MaxElems, MaxKeys) }

\* the countries literal of README "Encoding"
countriesLiteral == << <<s_Latvia, s_Riga, 1902000>>, <<s_Switzerland, s_Bern, 8637000>> >>

OldContent(n) == [k \in 1..n |-> <<"old", k>>]

ValuesOf(type) == IF type = "int" THEN {0, 7} ELSE {<<>>, s_x}

RECURSIVE StructsOf(_, _)
StructsOf(sch, k) ==
    IF k = 0 THEN {<<>>}
    ELSE {Append(e, v) : e \in StructsOf(sch, k - 1), v \in ValuesOf(sch[k].type)}

PopTags == {NoTag, <<s_pop>>, <<s_pop, s_omitempty>>}

Schemas == {Record} \cup {country(t) : t \in PopTags} \cup {countriesElem(t) : t \in PopTags}

----------------------------------------------------------------------------
(* State machine *)

InitCommon ==
    /\ pc = "open"
    /\ f = "nil"
    /\ exit = "running"
    /\ orders = <<>>
    /\ songs = <<>>
    /\ i = 0
    /\ decoded = <<>>
    /\ w = <<>>
    /\ out = <<>>

InitSongs ==
    /\ prog = "songs"
    /\ variant = "-"
    /\ schema = <<>>
    /\ entities = <<>>
    /\ disk \in {Absent} \cup {<<"csv", c>> : c \in CsvFiles}

InitAstros ==
    /\ prog = "astros"
    /\ variant = "-"
    /\ schema = astros
    /\ entities = <<>>
    /\ disk \in {Absent} \cup {<<"json", d>> : d \in AstrosDocs}

InitLoad ==
    /\ prog = "load"
    /\ variant = "-"
    /\ schema = country(NoTag)
    /\ entities = <<>>
    /\ disk \in {Absent} \cup {<<"json", d>> : d \in LoadDocs}

InitSave ==
    /\ prog = "save"
    /\ variant \in {"OpenFile", "Create"}
    /\ schema = countriesElem(NoTag)
    /\ entities = countriesLiteral
    /\ disk \in {Absent, Denied} \cup {<<"bytes", OldContent(n)>> : n \in 0..MaxOld}

InitCodec ==
    /\ prog = "codec"
    /\ variant = "-"
    /\ schema \in Schemas
    /\ entities \in SeqsUpTo(StructsOf(schema, Len(schema)), MaxEntities)
    /\ disk = Absent

Init == InitCommon /\ (InitSongs \/ InitAstros \/ InitLoad \/ InitSave \/ InitCodec)

\* log.Fatal / log.Fatalf: os.Exit(1); deferred calls do not run
Fatal ==
    /\ exit' = "fatal"
    /\ pc' = "exited"
    /\ f' = f

\* return from main: the deferred f.Close() runs
Return ==
    /\ exit' = "ok"
    /\ pc' = "exited"
    /\ f' = "closed"

\* a run-time panic unwinds main: the deferred f.Close() runs, then the
\* program exits with status 2
Panic ==
    /\ exit' = "panic"
    /\ pc' = "exited"
    /\ f' = "closed"

(* orders/main.go *)

SongsOpen ==
    /\ prog = "songs" /\ pc = "open"
    /\ IF disk[1] = "absent" THEN Fatal
       ELSE f' = "open" /\ pc' = "read" /\ exit' = exit
    /\ UNCHANGED <<prog, variant, schema, disk, orders, songs, i, decoded, entities, w, out>>

SongsReadAll ==
    /\ prog = "songs" /\ pc = "read"
    /\ LET r == ReadAll(disk[2])
       IN /\ orders' = r.records
          /\ IF r.err THEN Fatal
             ELSE pc' = "entries" /\ UNCHANGED <<f, exit>>
    /\ UNCHANGED <<prog, variant, schema, disk, songs, i, decoded, entities, w, out>>

SongsEntries ==
    /\ prog = "songs" /\ pc = "entries"
    /\ LET r == songEntries(orders)
       IN /\ songs' = r.songs
          /\ IF r.panicked THEN Panic /\ i' = i
             ELSE pc' = "print" /\ i' = 1 /\ UNCHANGED <<f, exit>>
    /\ UNCHANGED <<prog, variant, schema, disk, orders, decoded, entities, w, out>>

SongsPrint ==
    /\ prog = "songs" /\ pc = "print"
    /\ i <= Len(songs)
    /\ out' = Append(out, songs[i])
    /\ i' = i + 1
    /\ UNCHANGED <<prog, variant, schema, disk, pc, f, exit, orders, songs, decoded, entities, w>>

SongsReturn ==
    /\ prog = "songs" /\ pc = "print"
    /\ i > Len(songs)
    /\ Return
    /\ UNCHANGED <<prog, variant, schema, disk, orders, songs, i, decoded, entities, w, out>>

(* astros/main.go *)

AstrosOpen ==
    /\ prog = "astros" /\ pc = "open"
    /\ IF disk[1] = "absent" THEN Fatal
       ELSE f' = "open" /\ pc' = "decode" /\ exit' = exit
    /\ UNCHANGED <<prog, variant, schema, disk, orders, songs, i, decoded, entities, w, out>>

AstrosDecode ==
    /\ prog = "astros" /\ pc = "decode"
    /\ LET r == DecodeStruct(disk[2], astros)
       IN /\ decoded' = r.val
          /\ IF r.err THEN Fatal
             ELSE pc' = "print" /\ UNCHANGED <<f, exit>>
    /\ UNCHANGED <<prog, variant, schema, disk, orders, songs, i, entities, w, out>>

AstrosPrint ==
    /\ prog = "astros" /\ pc = "print"
    /\ out' = Append(out, decoded)
    /\ Return
    /\ UNCHANGED <<prog, variant, schema, disk, orders, songs, i, decoded, entities, w>>

(* README "Decoding" *)

LoadOpen ==
    /\ prog = "load" /\ pc = "open"
    /\ IF disk[1] = "absent" THEN Fatal
       ELSE f' = "open" /\ pc' = "decode" /\ exit' = exit
    /\ UNCHANGED <<prog, variant, schema, disk, orders, songs, i, decoded, entities, w, out>>

LoadDecode ==
    /\ prog = "load" /\ pc = "decode"
    /\ LET r == DecodeSlice(disk[2], schema)
       IN /\ decoded' = r.val
          /\ IF r.err THEN Fatal
             ELSE pc' = "print" /\ UNCHANGED <<f, exit>>
    /\ UNCHANGED <<prog, variant, schema, disk, orders, songs, i, entities, w, out>>

LoadPrint ==
    /\ prog = "load" /\ pc = "print"
    /\ out' = Append(out, decoded)
    /\ Return
    /\ UNCHANGED <<prog, variant, schema, disk, orders, songs, i, decoded, entities, w>>

(* README "Encoding" *)

\* the text Encoder.Encode writes: the value and a newline
Serialize(v) == << <<"punct", "[">> >> \o v[2] \o << <<"punct", "]">>, <<"punct", "\n">> >>

\* what the file holds once it is open for writing: os.Create truncates it,
\* os.OpenFile(O_WRONLY|O_CREATE) creates it when absent and else leaves
\* its content in place
OpenForWrite(how, file) ==
    IF how = "Create" \/ file[1] = "absent" THEN <<"bytes", <<>>>> ELSE file

\* writing data at offset 0 of a file holding old
WriteAtStart(old, data) == data \o SubSeq(old, Len(data) + 1, Len(old))

SaveOpen ==
    /\ prog = "save" /\ pc = "open"
    /\ IF disk[1] = "denied" THEN Fatal /\ disk' = disk
       ELSE /\ f' = "open" /\ pc' = "encode" /\ exit' = exit
            /\ disk' = OpenForWrite(variant, disk)
    /\ UNCHANGED <<prog, variant, schema, orders, songs, i, decoded, entities, w, out>>

\* Encode writes into the bufio.Writer; nothing reaches the file yet
SaveEncode ==
    /\ prog = "save" /\ pc = "encode"
    /\ w' = Serialize(Marshal(entities, schema))
    /\ pc' = "return"
    /\ UNCHANGED <<prog, variant, schema, disk, f, exit, orders, songs, i, decoded, entities, out>>

\* return from main: the deferred calls run last-in first-out, w.Flush()
\* and then f.Close()
SaveReturn ==
    /\ prog = "save" /\ pc = "return"
    /\ disk' = <<"bytes", WriteAtStart(disk[2], w)>>
    /\ w' = <<>>
    /\ Return
    /\ UNCHANGED <<prog, variant, schema, orders, songs, i, decoded, entities, out>>

(* Marshal followed by Unmarshal into fresh structs of the same type *)

CodecMarshal ==
    /\ prog = "codec" /\ pc = "open"
    /\ w' = Marshal(entities, schema)
    /\ pc' = "decode"
    /\ UNCHANGED <<prog, variant, schema, disk, f, exit, orders, songs, i, decoded, entities, out>>

CodecUnmarshal ==
    /\ prog = "codec" /\ pc = "decode"
    /\ LET r == DecodeSlice(w, schema)
       IN /\ decoded' = r.val
          /\ exit' = IF r.err THEN "fatal" ELSE "ok"
    /\ pc' = "exited"
    /\ UNCHANGED <<prog, variant, schema, disk, f, orders, songs, i, entities, w, out>>

Next ==
    \/ SongsOpen \/ SongsReadAll \/ SongsEntries \/ SongsPrint \/ SongsReturn
    \/ AstrosOpen \/ AstrosDecode \/ AstrosPrint
    \/ LoadOpen \/ LoadDecode \/ LoadPrint
    \/ SaveOpen \/ SaveEncode \/ SaveReturn
    \/ CodecMarshal \/ CodecUnmarshal

Spec == Init /\ [][Next]_vars

----------------------------------------------------------------------------
(* Vocabulary of the properties *)

Max(S) == CHOOSE k \in S : \A m \in S : m <= k

\* the decoder has returned without an error
DecodedOK == pc \in {"print", "exited"} /\ exit # "fatal"

\* the encoder has run
Encoded == pc \in {"decode", "exited"}

\* the pairs of an object whose key is / folds to the given key
exactMatches(pairs, key) == {k \in DOMAIN pairs : pairs[k][1] = key}
foldMatches(pairs, key) == {k \in DOMAIN pairs : equalFold(pairs[k][1], key)}

\* the value a field gets from the last pair whose key equals the field's
\* key under case folding; the zero value when there is none or the field
\* is not exported
valueByFold(pairs, fld) ==
    LET m == foldMatches(pairs, IF fld.tag = NoTag THEN fld.name ELSE fld.tag[1])
    IN IF ~isUpper(fld.name[1]) \/ m = {} THEN zeroValue(fld.type)
       ELSE pairs[Max(m)][2][2]

structByFold(obj, sch) == [n \in DOMAIN sch |-> valueByFold(obj[2], sch[n])]

\* the array under the last top-level key of astros.json that folds to
\* "People"; << >> when there is none
peopleArray ==
    LET m == foldMatches(disk[2][2], s_People)
    IN IF m = {} THEN <<>> ELSE disk[2][2][Max(m)][2][2]

\* a CSV file encoding/csv rejects: a malformed line, or a record whose
\* number of fields differs from the first record's
csvMalformed(lines) ==
    \E k \in DOMAIN lines :
        lines[k][1] = "bad" \/ (lines[1][1] = "record" /\ Len(lines[k][2]) # Len(lines[1][2]))

\* an astros.json the decoder rejects
astrosRejected(doc) ==
    \/ doc[1] # "object"
    \/ \E k \in foldMatches(doc[2], s_People) :
           \E e \in DOMAIN doc[2][k][2][2] : doc[2][k][2][2][e][1] # "object"

keysOf(obj) == {obj[2][k][1] : k \in DOMAIN obj[2]}

valueAt(obj, key) == obj[2][CHOOSE k \in DOMAIN obj[2] : obj[2][k][1] = key][2]

----------------------------------------------------------------------------
(* C1: for every valid CSV input of N rows, songEntries yields N songs,    *)
(* each with its first min(3, row length) fields from the row and the      *)
(* remaining fields empty; a row of fewer than three fields gives empty    *)
(* trailing fields rather than a failure.                                  *)
C1_ShortRowsPadded ==
    (prog = "songs" /\ pc \in {"print", "exited"} /\ exit # "fatal" /\ f # "nil") =>
        /\ Len(songs) = Len(orders)
        /\ \A k \in DOMAIN orders : \A j \in 1..3 :
               songs[k][j] = IF j <= Len(orders[k]) THEN orders[k][j] ELSE <<>>

(* C2: once os.Open has succeeded the file is closed on every path by      *)
(* which the songs and astros programs exit, log.Fatal paths included.     *)
C2_ClosedOnEveryExit ==
    (prog \in {"songs", "astros"} /\ pc = "exited" /\ f # "nil") => f = "closed"

(* C3 as claimed: a field is populated only by a wire key equal to its     *)
(* name letter for letter; with no such key the field stays at its zero    *)
(* value.                                                                  *)
C3_CaseSensitive ==
    /\ (prog = "astros" /\ DecodedOK /\ exactMatches(disk[2][2], s_People) = {}) =>
           decoded[1] = <<>>
    /\ (prog = "load" /\ DecodedOK) =>
           \A e \in DOMAIN decoded :
               exactMatches(disk[2][2][e][2], s_Name) = {} => decoded[e][1] = <<>>

(* C3 amended: a field of astros, astro and country is populated by a wire *)
(* key that equals its name under case folding ("people" and "name"        *)
(* populate People and Name), the last one when an object repeats the key  *)
(* of a string or number field; a field with no such key, and the          *)
(* unexported field population, stay at their zero value.                  *)
C3_FoldMatch ==
    /\ (prog = "astros" /\ DecodedOK) =>
           /\ Len(decoded[1]) = Len(peopleArray)
           /\ \A e \in DOMAIN peopleArray : \A n \in DOMAIN astro :
                  decoded[1][e][n] = valueByFold(peopleArray[e][2], astro[n])
    /\ (prog = "load" /\ DecodedOK) =>
           \A e \in DOMAIN decoded : \A n \in DOMAIN schema :
               decoded[e][n] = valueByFold(disk[2][2][e][2], schema[n])

C3_Witness ==
    /\ prog = "astros" /\ pc = "exited" /\ exit = "ok"
    /\ disk[2][2] # <<>> /\ disk[2][2][1][1] = s_people
    /\ Len(decoded[1]) > 0 /\ decoded[1][1][2] = s_y

(* C4 as claimed: decoding is all-or-nothing in the songs and astros       *)
(* programs: when the file cannot be opened or the decoder rejects any     *)
(* record, the program ends through log.Fatal and no entity has been       *)
(* printed or handed to the caller; a failed run never emits a prefix of   *)
(* the records; a run that ends normally has produced as many entities as  *)
(* the input has records.                                                  *)
C4_NothingHandedOver ==
    /\ (prog \in {"songs", "astros"} /\ exit \in {"fatal", "panic"}) => out = <<>>
    /\ (prog = "songs" /\ exit = "fatal") => orders = <<>> /\ songs = <<>>
    /\ (prog = "astros" /\ exit = "fatal") => decoded \in {<<>>, zeroStruct(astros)}
    /\ (prog = "songs" /\ exit = "ok") => Len(out) = Len(disk[2])
    /\ (prog = "astros" /\ exit = "ok") =>
           Len(out) = 1 /\ Len(out[1][1]) = Len(peopleArray)

(* C4 amended: when the file cannot be opened or the decoder rejects any   *)
(* record, the program ends through log.Fatal with nothing printed, and a  *)
(* failed run never prints a prefix of the records; ReadAll hands no       *)
(* records over with an error, and Decode leaves astronauts untouched on   *)
(* io.EOF, malformed text or a value that is not an object, but on an      *)
(* element of People that is not an object it has stored the elements of   *)
(* the array (that one at its zero value) when it returns the error; a run *)
(* that ends normally has produced as many entities as the input has       *)
(* records.                                                                *)
C4_AllOrNothing ==
    /\ (prog \in {"songs", "astros"} /\ exit \in {"fatal", "panic"}) => out = <<>>
    /\ (prog = "songs" /\ (disk = Absent \/ csvMalformed(disk[2]))) =>
           /\ out = <<>> /\ orders = <<>> /\ songs = <<>>
           /\ pc = "exited" => exit = "fatal"
    /\ (prog = "astros" /\ (disk = Absent \/ astrosRejected(disk[2]))) =>
           /\ out = <<>>
           /\ pc = "exited" => exit = "fatal"
    /\ (prog = "astros" /\ exit = "fatal") =>
           IF disk = Absent THEN decoded = <<>>
           ELSE IF disk[2][1] # "object" THEN decoded = zeroStruct(astros)
           ELSE Len(decoded[1]) = Len(peopleArray)
    /\ (prog = "songs" /\ exit = "ok") => Len(out) = Len(disk[2])
    /\ (prog = "astros" /\ exit = "ok") =>
           Len(out) = 1 /\ Len(out[1][1]) = Len(peopleArray)

C4_Witness ==
    /\ prog = "astros" /\ exit = "fatal" /\ out = <<>>
    /\ disk[1] = "json" /\ disk[2][1] = "object"
    /\ Len(peopleArray) = 2
    /\ peopleArray[1][1] = "object" /\ peopleArray[2][1] = "number"
    /\ decoded[1][1] = <<<<>>, s_x>>

(* C5: decoding preserves input order: song k is built from row k of the   *)
(* file and element k of a decoded JSON array from element k of the input, *)
(* nothing reordered, duplicated or dropped, and the songs are printed in  *)
(* that order.                                                             *)
C5_OrderPreserved ==
    /\ (prog = "songs" /\ pc \in {"print", "exited"} /\ exit \notin {"fatal", "panic"}) =>
           /\ Len(songs) = Len(disk[2])
           /\ \A k \in DOMAIN songs : songs[k] = SubSeq(disk[2][k][2], 1, 3)
           /\ out = SubSeq(songs, 1, Len(out))
           /\ exit = "ok" => out = songs
    /\ (prog = "load" /\ DecodedOK) =>
           /\ Len(decoded) = Len(disk[2][2])
           /\ \A k \in DOMAIN decoded : decoded[k] = structByFold(disk[2][2][k], schema)

C5_Witness ==
    /\ prog = "songs" /\ exit = "ok"
    /\ Len(out) >= 2 /\ out[1] # out[2]
    /\ out[1] = SubSeq(disk[2][1][2], 1, 3)

(* C6 as claimed: an empty input (a CSV file with no rows, a JSON empty    *)
(* array, a zero-byte JSON file) gives an empty entity sequence and a      *)
(* normal exit, never log.Fatal.                                           *)
C6_EmptyInputNoError ==
    (/\ pc = "exited"
     /\ \/ prog = "songs" /\ disk = <<"csv", <<>>>>
        \/ prog \in {"astros", "load"} /\ disk = <<"json", EmptyStream>>
        \/ prog = "load" /\ disk = <<"json", <<"array", <<>>>>>>)
    => exit = "ok"

(* C6 amended: a CSV file with no rows makes the songs loader print        *)
(* nothing and exit normally; a JSON empty array decodes into an empty     *)
(* []country and an object with an empty or absent People array into an    *)
(* empty astros, both with a normal exit; a zero-byte JSON file makes      *)
(* Decode return io.EOF and both JSON loaders end through log.Fatal with   *)
(* nothing printed.                                                        *)
C6_EmptyInput ==
    pc = "exited" =>
        /\ (prog = "songs" /\ disk = <<"csv", <<>>>>) => exit = "ok" /\ out = <<>>
        /\ (prog = "load" /\ disk = <<"json", <<"array", <<>>>>>>) =>
               exit = "ok" /\ decoded = <<>> /\ out = << <<>> >>
        /\ (prog = "astros" /\ disk[1] = "json" /\ disk[2][1] = "object"
              /\ peopleArray = <<>>) =>
               exit = "ok" /\ decoded = << <<>> >> /\ out = << decoded >>
        /\ (prog \in {"astros", "load"} /\ disk = <<"json", EmptyStream>>) =>
               exit = "fatal" /\ out = <<>>

C6_Witness ==
    /\ prog = "load" /\ pc = "exited" /\ exit = "ok"
    /\ disk = <<"json", <<"array", <<>>>>>>
    /\ decoded = <<>>

C8_OmitEmpty ==
    (prog = "codec" /\ Encoded /\ schema = Record) =>
        \A k \in DOMAIN entities :
            LET obj == w[2][k]
            IN /\ s_foo \in keysOf(obj) <=> entities[k][2] # <<>>
               /\ s_foo \in keysOf(obj) => valueAt(obj, s_foo) = <<"string", entities[k][2]>>
               /\ s_bar \in keysOf(obj) /\ valueAt(obj, s_bar) = <<"string", entities[k][3]>>
               /\ s_Field4 \in keysOf(obj)
               /\ valueAt(obj, s_Field4) = <<"string", entities[k][4]>>

C8_Witness ==
    /\ prog = "codec" /\ Encoded /\ schema = Record
    /\ Len(entities) = 2
    /\ entities[1][2] = s_x /\ s_foo \in keysOf(w[2][1])
    /\ entities[2][2] = <<>> /\ entities[2][3] = <<>>
    /\ keysOf(w[2][2]) = {s_bar, s_Field4}

(* C9: the encoding holds a key for a field only if the field is exported  *)
(* and not tagged "-"; an unexported field such as population is never     *)
(* present, whatever its value and tag; the countries literal encodes to   *)
(* objects with exactly the keys Name and Capital.                         *)
C9_OnlyExported ==
    /\ (prog = "codec" /\ Encoded) =>
           \A k \in DOMAIN entities :
               /\ \A key \in keysOf(w[2][k]) :
                      \E n \in DOMAIN schema :
                          /\ isUpper(schema[n].name[1])
                          /\ schema[n].tag # <<s_dash>>
                          /\ key \in {schema[n].name} \cup {schema[n].tag[t] : t \in DOMAIN schema[n].tag}
               /\ \A n \in DOMAIN schema :
                      ~isUpper(schema[n].name[1]) =>
                          keysOf(w[2][k]) \cap
                              ({schema[n].name} \cup {schema[n].tag[t] : t \in DOMAIN schema[n].tag}) = {}
    /\ (prog = "save" /\ pc \in {"return"}) =>
           w = << <<"punct", "[">>,
                  <<"object", << <<s_Name, <<"string", s_Latvia>>>>,
                                 <<s_Capital, <<"string", s_Riga>>>> >>>>,
                  <<"object", << <<s_Name, <<"string", s_Switzerland>>>>,
                                 <<s_Capital, <<"string", s_Bern>>>> >>>>,
                  <<"punct", "]">>, <<"punct", "\n">> >>

C9_Witness ==
    /\ prog = "codec" /\ Encoded
    /\ schema = countriesElem(<<s_pop>>)
    /\ Len(entities) = 1 /\ entities[1] = <<s_x, s_x, 7>>
    /\ keysOf(w[2][1]) = {s_Name, s_Capital}

(* C10: after the save example ends without error, countries.json holds    *)
(* exactly the encoding of the countries slice, whatever the file held     *)
(* before.                                                                 *)
C10_FileIsEncoding ==
    (prog = "save" /\ pc = "exited" /\ exit = "ok") =>
        disk = <<"bytes", Serialize(Marshal(entities, schema))>>

====
